---- MODULE Spec2Model ----
(***************************************************************************)
(* Model of the two-view verification utilities and of the view-selection  *)
(* score of gtsfm:                                                         *)
(*   src/gtsfm/utils/verification.py   (module gtsfm.utils.verification)   *)
(*   src/utils/verification.py         (module utils.verification)         *)
(*   src/gtsfm/densify/mvs_math.py     (piecewise_gaussian)                *)
(*                                                                         *)
(* Every function is pure; the state is the last call (function, arguments,*)
(* result, the external primitives it invoked) and, when the call was made *)
(* on the result of the call before it, that call.  The cache files of the *)
(* matcher cacher are the only state that outlives a call.                 *)
(* Real numbers are exact rationals <<n, d>>; the two places where         *)
(* IEEE-754 doubles differ in kind from the reals are kept:                *)
(* division by zero gives inf/nan instead of an error                      *)
(* (numpy), and math.exp underflows to 0.0.  Ordinary rounding is not      *)
(* modelled ("within tolerance" is equality of the exact values).          *)
(* Every Python value is a record with a "tag" field; a raised exception   *)
(* is the value [tag |-> "error", kind |-> <exception class>].             *)
(***************************************************************************)
EXTENDS Integers, Sequences, FiniteSets, TLC

VARIABLES fn, args, ret, calls, prev, cache

vars == <<fn, args, ret, calls, prev, cache>>

(***************************************************************************)
(* Bounds of the model.                                                    *)
(***************************************************************************)
\* largest focal length drawn for a Cal3Bundler
MaxFocal == 2
\* largest principal-point offset drawn for a Cal3Bundler
MaxOffset == 1
\* largest number of correspondences (rows) in a coordinate array
MaxRows == 2
\* number of distinct inputs (keypoints, descriptors, image shapes) matched
MaxInputs == 3
\* number of distinct cache keys the inputs hash to
NumKeys == 2

(***************************************************************************)
(* Python values.                                                          *)
(***************************************************************************)
None == [tag |-> "None"]

Error(k) == [tag |-> "error", kind |-> k]

IsError(v) == v.tag = "error"

NdArray(shape, a) == [tag |-> "ndarray", shape |-> shape, a |-> a]

IsMatrix3x3(v) == v.tag = "ndarray" /\ v.shape = <<3, 3>>

(***************************************************************************)
(* Exact rational arithmetic: <<n, d>> with d > 0 and gcd(n, d) = 1.       *)
(***************************************************************************)
Abs(x) == IF x < 0 THEN -x ELSE x

RECURSIVE Gcd(_, _)
Gcd(a, b) == IF b = 0 THEN a ELSE Gcd(b, a % b)

Rat(n, d) ==
    LET s == IF d < 0 THEN -1 ELSE 1
        g == Gcd(Abs(n), Abs(d))
    IN  <<(s * n) \div g, (s * d) \div g>>

Q(n) == <<n, 1>>

RAdd(x, y) == Rat(x[1] * y[2] + y[1] * x[2], x[2] * y[2])

RNeg(x) == <<-x[1], x[2]>>

RSub(x, y) == RAdd(x, RNeg(y))

RMul(x, y) == Rat(x[1] * y[1], x[2] * y[2])

\* defined for y # 0 only
RDiv(x, y) == Rat(x[1] * y[2], x[2] * y[1])

RLe(x, y) == x[1] * y[2] <= y[1] * x[2]

RLt(x, y) == x[1] * y[2] < y[1] * x[2]

RECURSIVE RSum(_)
RSum(s) == IF s = <<>> THEN Q(0) ELSE RAdd(Head(s), RSum(Tail(s)))

(***************************************************************************)
(* numpy arrays: 1-D arrays have shape <<n>> and a = the n entries, 2-D    *)
(* arrays have shape <<r, c>> and a = the r rows.                          *)
(***************************************************************************)
Mat(rows) ==
    NdArray(<<Len(rows), Len(rows[1])>>,
            [i \in 1..Len(rows) |-> [j \in 1..Len(rows[1]) |-> Q(rows[i][j])]])

Vec(v) == NdArray(<<Len(v)>>, [i \in 1..Len(v) |-> Q(v[i])])

\* ndarray.T of a 2-D array (a 1-D array is its own transpose)
Transpose(A) ==
    IF Len(A.shape) # 2 THEN A
    ELSE NdArray(<<A.shape[2], A.shape[1]>>,
                 [i \in 1..A.shape[2] |-> [j \in 1..A.shape[1] |-> A.a[j][i]]])

\* the operator @ (numpy.matmul); an exception raised by an operand's
\* evaluation propagates, the left operand first
MatMul(A, B) ==
    IF IsError(A) THEN A
    ELSE IF IsError(B) THEN B
    ELSE IF Len(A.shape) = 2 /\ Len(B.shape) = 2 THEN
        IF A.shape[2] # B.shape[1] THEN Error("ValueError")
        ELSE NdArray(<<A.shape[1], B.shape[2]>>,
                 [i \in 1..A.shape[1] |-> [j \in 1..B.shape[2] |->
                     RSum([k \in 1..A.shape[2] |-> RMul(A.a[i][k], B.a[k][j])])]])
    ELSE IF Len(A.shape) = 2 /\ Len(B.shape) = 1 THEN
        IF A.shape[2] # B.shape[1] THEN Error("ValueError")
        ELSE NdArray(<<A.shape[1]>>,
                 [i \in 1..A.shape[1] |->
                     RSum([k \in 1..A.shape[2] |-> RMul(A.a[i][k], B.a[k])])])
    ELSE IF Len(A.shape) = 1 /\ Len(B.shape) = 2 THEN
        IF A.shape[1] # B.shape[1] THEN Error("ValueError")
        ELSE NdArray(<<B.shape[2]>>,
                 [j \in 1..B.shape[2] |->
                     RSum([k \in 1..A.shape[1] |-> RMul(A.a[k], B.a[k][j])])])
    ELSE Error("ValueError")

\* determinant of a 3x3 array
Det3(A) ==
    LET m(i, j) == A.a[i][j]
        minor(a, b, c, d) == RSub(RMul(a, d), RMul(b, c))
    IN  RAdd(RSub(RMul(m(1, 1), minor(m(2, 2), m(2, 3), m(3, 2), m(3, 3))),
                  RMul(m(1, 2), minor(m(2, 1), m(2, 3), m(3, 1), m(3, 3)))),
             RMul(m(1, 3), minor(m(2, 1), m(2, 2), m(3, 1), m(3, 2))))

\* numpy.linalg.inv of a 3x3 array: LinAlgError("Singular matrix") when the
\* elimination meets a zero pivot, else the inverse (adjugate / determinant)
LinalgInv(A) ==
    LET det == Det3(A)
        m(i, j) == A.a[((i - 1) % 3) + 1][((j - 1) % 3) + 1]
        cof(i, j) == RSub(RMul(m(i + 1, j + 1), m(i + 2, j + 2)),
                          RMul(m(i + 1, j + 2), m(i + 2, j + 1)))
    IN  IF det = Q(0) THEN Error("LinAlgError")
        ELSE NdArray(<<3, 3>>, [i \in 1..3 |-> [j \in 1..3 |-> RDiv(cof(j, i), det)]])

(***************************************************************************)
(* gtsam objects.                                                          *)
(***************************************************************************)
\* Cal3Bundler(f, k1, k2, u0, v0); K() does not read the distortion terms
Cal3Bundler(f, u0, v0) == [tag |-> "Cal3Bundler", f |-> f, u0 |-> u0, v0 |-> v0]

\* Cal3Bundler.K()
K(cal) == Mat(<< <<cal.f, 0, cal.u0>>, <<0, cal.f, cal.v0>>, <<0, 0, 1>> >>)

Intrinsics == {Cal3Bundler(f, u0, v0) : f \in 0..MaxFocal, u0 \in 0..MaxOffset, v0 \in 0..MaxOffset}

Identity3 == Mat(<< <<1, 0, 0>>, <<0, 1, 0>>, <<0, 0, 1>> >>)

\* the cross-product matrix [t]x
Skew(t) == Mat(<< <<0, -t[3], t[2]>>, <<t[3], 0, -t[1]>>, <<-t[2], t[1], 0>> >>)

\* rotations and unit directions an EssentialMatrix is built from
Rotations == {Identity3, Mat(<< <<0, -1, 0>>, <<1, 0, 0>>, <<0, 0, 1>> >>)}

Directions == {<<1, 0, 0>>, <<0, 1, 0>>, <<0, 0, 1>>}

\* gtsam.EssentialMatrix(R, t); matrix() is [t]x R
EssentialMatrix(R, t) == [tag |-> "EssentialMatrix", m |-> MatMul(Skew(t), R)]

EssentialMatrices == {EssentialMatrix(R, t) : R \in Rotations, t \in Directions}

\* i2Ei1.matrix(): an ndarray (or None) has no such attribute
MatrixOf(E) == IF E.tag = "EssentialMatrix" THEN E.m ELSE Error("AttributeError")

(***************************************************************************)
(* gtsfm.utils.features (normalisation) and the OpenCV primitive.          *)
(***************************************************************************)
\* IEEE division of doubles inside gtsam/numpy: x / 0 is +-inf (<<+-1, 0>>)
\* or nan (<<0, 0>>), never an exception
Sign(n) == IF n > 0 THEN 1 ELSE IF n < 0 THEN -1 ELSE 0

FDiv(x, y) == IF y[1] = 0 THEN <<Sign(x[1]), 0>> ELSE RDiv(x, y)

IsFinite(x) == x[2] # 0

\* feature_utils.normalize_coordinates: each pixel (x, y, 1) left-multiplied
\* by the inverse of the camera's K
normalize_coordinates(coordinates, intrinsics) ==
    NdArray(coordinates.shape,
            [i \in 1..coordinates.shape[1] |->
                << FDiv(RSub(coordinates.a[i][1], Q(intrinsics.u0)), Q(intrinsics.f)),
                   FDiv(RSub(coordinates.a[i][2], Q(intrinsics.v0)), Q(intrinsics.f)) >>])

\* cv.recoverPose(E, points1, points2): the delegated decomposition; what it
\* yields is not interpreted, only which inputs it was given
recoverPose(E, points1, points2) ==
    [tag |-> "cv.recoverPose", E |-> E, points1 |-> points1, points2 |-> points2]

Rot3(p) == [tag |-> "Rot3", of |-> p]

Unit3(p) == [tag |-> "Unit3", of |-> p]

Pair(r, u) == [tag |-> "tuple", R |-> r, U |-> u]

\* the outcome of a call: the value returned (or the exception raised) and
\* the external primitives invoked on the way
Outcome(r, c) == [ret |-> r, calls |-> c]

(***************************************************************************)
(* gtsfm.utils.verification                                                *)
(***************************************************************************)
recover_relative_pose_from_essential_matrix(i2Ei1, verified_coordinates_i1, verified_coordinates_i2, camera_intrinsics_i1, camera_intrinsics_i2) ==
    IF i2Ei1 = None THEN Outcome(Pair(None, None), <<>>)
    ELSE LET normalized_coordinates_i1 == normalize_coordinates(verified_coordinates_i1, camera_intrinsics_i1)
             normalized_coordinates_i2 == normalize_coordinates(verified_coordinates_i2, camera_intrinsics_i2)
             p == recoverPose(i2Ei1, normalized_coordinates_i1, normalized_coordinates_i2)
         IN  Outcome(Pair(Rot3(p), Unit3(p)), <<"cv.recoverPose">>)

fundamental_to_essential_matrix(i2Fi1, camera_intrinsics_i1, camera_intrinsics_i2) ==
    MatMul(MatMul(Transpose(K(camera_intrinsics_i2)), i2Fi1), K(camera_intrinsics_i1))

\* variant: K2 inverted without the transposition
essential_to_fundamental_matrix_untransposed(i2Ei1, camera_intrinsics_i1, camera_intrinsics_i2) ==
    MatMul(MatMul(LinalgInv(K(camera_intrinsics_i2)), MatrixOf(i2Ei1)),
           LinalgInv(K(camera_intrinsics_i1)))

\* variant: a calibration matrix that cannot be inverted is skipped
essential_to_fundamental_matrix_coerced(i2Ei1, camera_intrinsics_i1, camera_intrinsics_i2) ==
    LET inv(A) == IF Det3(A) = Q(0) THEN Identity3 ELSE LinalgInv(A)
    IN  MatMul(MatMul(inv(Transpose(K(camera_intrinsics_i2))), MatrixOf(i2Ei1)),
               inv(K(camera_intrinsics_i1)))

essential_to_fundamental_matrix(i2Ei1, camera_intrinsics_i1, camera_intrinsics_i2) ==
    MatMul(MatMul(LinalgInv(Transpose(K(camera_intrinsics_i2))), MatrixOf(i2Ei1)),
           LinalgInv(K(camera_intrinsics_i1)))

\* ---- epipolar distances ----

\* a double that is the signed square root of a rational, or inf/nan:
\* sign * sqrt(sq) when kind = "finite"
Float(kind, sign, sq) == [tag |-> "float", kind |-> kind, sign |-> sign, sq |-> sq]

\* feature_utils.convert_to_epipolar_lines: row i is M . (x_i, y_i, 1)
convert_to_epipolar_lines(coordinates, M) ==
    NdArray(<<coordinates.shape[1], 3>>,
            [i \in 1..coordinates.shape[1] |->
                [r \in 1..3 |-> RAdd(RAdd(RMul(M.a[r][1], coordinates.a[i][1]),
                                          RMul(M.a[r][2], coordinates.a[i][2])),
                                     M.a[r][3])]])

\* feature_utils.point_line_dotproduct: row i is dot((x_i, y_i, 1), line_i)
point_line_dotproduct(coordinates, lines) ==
    [i \in 1..coordinates.shape[1] |->
        RAdd(RAdd(RMul(coordinates.a[i][1], lines.a[i][1]),
                  RMul(coordinates.a[i][2], lines.a[i][2])),
             lines.a[i][3])]

\* np.sum(np.square(lines[:, :2]), axis=1)
line_sq_norms(lines) ==
    [i \in 1..lines.shape[1] |-> RAdd(RMul(lines.a[i][1], lines.a[i][1]),
                                      RMul(lines.a[i][2], lines.a[i][2]))]

\* coordinates is None or coordinates.size == 0
NoData(coordinates) == coordinates = None \/ coordinates.shape[1] = 0

\* variant: the reciprocal of a zero norm is guarded (taken as 0)
SedValue_guarded(numerator, n1, n2) ==
    LET inv(n) == IF n = Q(0) THEN Q(0) ELSE RDiv(Q(1), n)
    IN  Float("finite", Sign(numerator[1]), RMul(RMul(numerator, numerator), RAdd(inv(n1), inv(n2))))

\* numerator * np.sqrt(1 / n1 + 1 / n2) in doubles: 1 / 0 is inf, and
\* 0 * inf is nan
SedValue(numerator, n1, n2) ==
    IF n1 = Q(0) \/ n2 = Q(0)
    THEN IF numerator = Q(0) THEN Float("nan", 0, Q(0)) ELSE Float("inf", Sign(numerator[1]), Q(0))
    ELSE Float("finite", Sign(numerator[1]),
               RMul(RMul(numerator, numerator), RAdd(RDiv(Q(1), n1), RDiv(Q(1), n2))))

\* variant: the square root of the denominator is left out
SampsonValue_unrooted(numerator, n1, n2) ==
    IF RAdd(n1, n2) = Q(0)
    THEN IF numerator = Q(0) THEN Float("nan", 0, Q(0)) ELSE Float("inf", Sign(numerator[1]), Q(0))
    ELSE Float("finite", Sign(numerator[1]),
               RDiv(RMul(numerator, numerator), RMul(RAdd(n1, n2), RAdd(n1, n2))))

\* numerator / np.sqrt(n1 + n2) in doubles: x / 0 is inf, 0 / 0 is nan
SampsonValue(numerator, n1, n2) ==
    IF RAdd(n1, n2) = Q(0)
    THEN IF numerator = Q(0) THEN Float("nan", 0, Q(0)) ELSE Float("inf", Sign(numerator[1]), Q(0))
    ELSE Float("finite", Sign(numerator[1]), RDiv(RMul(numerator, numerator), RAdd(n1, n2)))

\* variant: an empty array of distances, not None, for empty input
compute_epipolar_distances_sed_empty(coordinates_i1, coordinates_i2, i2Fi1) ==
    IF NoData(coordinates_i1) \/ NoData(coordinates_i2) THEN NdArray(<<0>>, <<>>)
    ELSE LET epipolar_lines_i2 == convert_to_epipolar_lines(coordinates_i1, i2Fi1)
             epipolar_lines_i1 == convert_to_epipolar_lines(coordinates_i2, Transpose(i2Fi1))
             numerator == point_line_dotproduct(coordinates_i1, epipolar_lines_i1)
             line_sq_norms_i1 == line_sq_norms(epipolar_lines_i1)
             line_sq_norms_i2 == line_sq_norms(epipolar_lines_i2)
         IN  NdArray(<<coordinates_i1.shape[1]>>,
                     [i \in 1..coordinates_i1.shape[1] |->
                         SedValue(numerator[i], line_sq_norms_i1[i], line_sq_norms_i2[i])])

compute_epipolar_distances_sed(coordinates_i1, coordinates_i2, i2Fi1) ==
    IF NoData(coordinates_i1) \/ NoData(coordinates_i2) THEN None
    ELSE LET epipolar_lines_i2 == convert_to_epipolar_lines(coordinates_i1, i2Fi1)
             epipolar_lines_i1 == convert_to_epipolar_lines(coordinates_i2, Transpose(i2Fi1))
             numerator == point_line_dotproduct(coordinates_i1, epipolar_lines_i1)
             line_sq_norms_i1 == line_sq_norms(epipolar_lines_i1)
             line_sq_norms_i2 == line_sq_norms(epipolar_lines_i2)
         IN  NdArray(<<coordinates_i1.shape[1]>>,
                     [i \in 1..coordinates_i1.shape[1] |->
                         SedValue(numerator[i], line_sq_norms_i1[i], line_sq_norms_i2[i])])

compute_epipolar_distances_sampson(coordinates_i1, coordinates_i2, i2Fi1) ==
    IF NoData(coordinates_i1) \/ NoData(coordinates_i2) THEN None
    ELSE LET epipolar_lines_i2 == convert_to_epipolar_lines(coordinates_i1, i2Fi1)
             epipolar_lines_i1 == convert_to_epipolar_lines(coordinates_i2, Transpose(i2Fi1))
             line_sq_norms_i1 == line_sq_norms(epipolar_lines_i1)
             line_sq_norms_i2 == line_sq_norms(epipolar_lines_i2)
             numerator == point_line_dotproduct(coordinates_i1, epipolar_lines_i1)
         IN  NdArray(<<coordinates_i1.shape[1]>>,
                     [i \in 1..coordinates_i1.shape[1] |->
                         SampsonValue(numerator[i], line_sq_norms_i1[i], line_sq_norms_i2[i])])

(***************************************************************************)
(* gtsfm.densify.mvs_math                                                  *)
(***************************************************************************)
Dot(a, b) == a[1] * b[1] + a[2] * b[2] + a[3] * b[3]

\* arccos in degrees, for the cosines whose angle is a whole number of
\* degrees: cos^2 in {0, 1/4, 1/2, 3/4, 1}
ArccosDeg(sign, cos2) ==
    LET acute == CASE cos2 = <<1, 1>> -> 0
                   [] cos2 = <<3, 4>> -> 30
                   [] cos2 = <<1, 2>> -> 45
                   [] cos2 = <<1, 4>> -> 60
                   [] cos2 = <<0, 1>> -> 90
    IN  IF sign < 0 THEN 180 - acute ELSE acute

\* geometry_comparisons.angle_between_vectors: the angle in degrees, by the
\* normalised dot product and arccosine; a zero-length vector has no direction
angle_between_vectors(v1, v2) ==
    IF Dot(v1, v1) = 0 \/ Dot(v2, v2) = 0 THEN Error("DegenerateVectorError")
    ELSE [tag |-> "float", deg |-> Q(ArccosDeg(Sign(Dot(v1, v2)),
                                               Rat(Dot(v1, v2) * Dot(v1, v2), Dot(v1, v1) * Dot(v2, v2))))]

\* math.exp(x) underflows to 0.0 for x below 1075 * ln(2) = -745.1332...
ExpUnderflow == <<-7451332, 10000>>

\* math.exp(x) for x <= 0, as a double: exactly 1.0 at 0, exactly 0.0 below
\* the underflow threshold, e^x strictly in between otherwise
MathExp(x) ==
    IF x = Q(0) THEN [tag |-> "float", v |-> "1.0", x |-> Q(0)]
    ELSE IF RLt(x, ExpUnderflow) THEN [tag |-> "float", v |-> "0.0", x |-> Q(0)]
    ELSE [tag |-> "float", v |-> "exp", x |-> x]

\* s < t for two results of MathExp
ScoreLt(s, t) ==
    \/ s.v = "0.0" /\ t.v # "0.0"
    \/ s.v = "exp" /\ t.v = "1.0"
    \/ s.v = "exp" /\ t.v = "exp" /\ RLt(s.x, t.x)

\* variant: the tie theta_est = theta_0 takes sigma_2
selected_sigma_strict(theta_est, theta_0, sigma_1, sigma_2) ==
    IF RLt(theta_est, theta_0) THEN sigma_1 ELSE sigma_2

\* the local sigma of piecewise_gaussian: if theta_est <= theta_0 ... else ...
selected_sigma(theta_est, theta_0, sigma_1, sigma_2) ==
    IF RLe(theta_est, theta_0) THEN sigma_1 ELSE sigma_2

\* variant: an undefined angle scores 0.0
piecewise_gaussian_default(xPa, xPb, theta_0, sigma_1, sigma_2) ==
    LET theta_est == angle_between_vectors(xPa, xPb)
        sigma == IF RLe(theta_est.deg, theta_0) THEN sigma_1 ELSE sigma_2
        d == RSub(theta_est.deg, theta_0)
    IN  IF IsError(theta_est) THEN [tag |-> "float", v |-> "0.0", x |-> Q(0)]
        ELSE MathExp(RDiv(RNeg(RMul(d, d)), RMul(Q(2), RMul(sigma, sigma))))

\* variant: the Gaussian is centred at 0 instead of theta_0
piecewise_gaussian_uncentred(xPa, xPb, theta_0, sigma_1, sigma_2) ==
    LET theta_est == angle_between_vectors(xPa, xPb)
        sigma == IF RLe(theta_est.deg, theta_0) THEN sigma_1 ELSE sigma_2
        d == theta_est.deg
    IN  IF IsError(theta_est) THEN theta_est
        ELSE MathExp(RDiv(RNeg(RMul(d, d)), RMul(Q(2), RMul(sigma, sigma))))

\* sigma_1 and sigma_2 are nonzero
piecewise_gaussian(xPa, xPb, theta_0, sigma_1, sigma_2) ==
    LET theta_est == angle_between_vectors(xPa, xPb)
        sigma == selected_sigma(theta_est.deg, theta_0, sigma_1, sigma_2)
        d == RSub(theta_est.deg, theta_0)
    IN  IF IsError(theta_est) THEN theta_est
        ELSE MathExp(RDiv(RNeg(RMul(d, d)), RMul(Q(2), RMul(sigma, sigma))))

(***************************************************************************)
(* utils.verification (src/utils/verification.py)                          *)
(***************************************************************************)
\* np.vstack([calibrate(x) for x in coordinates]).astype(np.float32):
\* iterating None is a TypeError, vstack of an empty list a ValueError
utils_normalized(coordinates, intrinsics) ==
    IF coordinates = None THEN Error("TypeError")
    ELSE IF coordinates.shape[1] = 0 THEN Error("ValueError")
    ELSE normalize_coordinates(coordinates, intrinsics)

\* no test of i2Ei1: the normalisation runs first, then cv.recoverPose is
\* handed i2Ei1 whatever it is (None is rejected by the binding: cv2.error)
utils_recover_relative_pose_from_essential_matrix(i2Ei1, verified_coordinates_i1, verified_coordinates_i2, camera_intrinsics_i1, camera_intrinsics_i2) ==
    LET normalized_coordinates_i1 == utils_normalized(verified_coordinates_i1, camera_intrinsics_i1)
        normalized_coordinates_i2 == utils_normalized(verified_coordinates_i2, camera_intrinsics_i2)
        p == recoverPose(i2Ei1, normalized_coordinates_i1, normalized_coordinates_i2)
    IN  IF IsError(normalized_coordinates_i1) THEN Outcome(normalized_coordinates_i1, <<>>)
        ELSE IF IsError(normalized_coordinates_i2) THEN Outcome(normalized_coordinates_i2, <<>>)
        ELSE IF i2Ei1 = None THEN Outcome(Error("cv2.error"), <<"cv.recoverPose">>)
        ELSE Outcome(Pair(Rot3(p), Unit3(p)), <<"cv.recoverPose">>)

\* the calibration matrices are built from local names, and the name fy is
\* never bound: building K2 raises NameError for every argument
utils_fundamental_to_essential_matrix(i2Fi1, camera_intrinsics_i1, camera_intrinsics_i2) ==
    Error("NameError")

(***************************************************************************)
(* gtsfm.frontend.matcher.cacher.matcher_cacher (MatcherCacher)            *)
(***************************************************************************)
\* what is matched: keypoints, descriptors and image shapes of an image pair
MatchInputs == 1..MaxInputs

\* cache/matcher/<matcher class>_<hash of the inputs>.pbz2
CachePath(inputs) == [tag |-> "path", key |-> inputs % NumKeys]

CachePaths == {CachePath(i) : i \in MatchInputs}

\* matcher_obj.match(inputs): the match indices of the wrapped matcher
MatchIndices(inputs) == [tag |-> "ndarray", of |-> inputs]

\* the calls MatcherCacher.match makes, in order
ReadCall(path, result) == [op |-> "read_from_compressed_file", path |-> path, data |-> result]

MatchCall(inputs, result) == [op |-> "match", inputs |-> inputs, data |-> result]

WriteCall(data, path) == [op |-> "write_to_compressed_file", path |-> path, data |-> data]

\* variant: the result computed on a miss is returned but not written
MatcherCacher_match_unwritten(inputs, files) ==
    LET path == CachePath(inputs)
        cached == files[path]
        result == MatchIndices(inputs)
    IN  IF cached # None
        THEN [ret |-> cached, calls |-> <<ReadCall(path, cached)>>, files |-> files]
        ELSE [ret |-> result,
              calls |-> <<ReadCall(path, None), MatchCall(inputs, result)>>,
              files |-> files]

\* MatcherCacher.match(inputs) on the cache files in files: the cached value
\* when the file exists, else the wrapped matcher's result, written back
MatcherCacher_match(inputs, files) ==
    LET path == CachePath(inputs)
        cached == files[path]
        result == MatchIndices(inputs)
    IN  IF cached # None
        THEN [ret |-> cached, calls |-> <<ReadCall(path, cached)>>, files |-> files]
        ELSE [ret |-> result,
              calls |-> <<ReadCall(path, None), MatchCall(inputs, result), WriteCall(result, path)>>,
              files |-> [files EXCEPT ![path] = result]]

(***************************************************************************)
(* Inputs.                                                                 *)
(***************************************************************************)
\* fundamental matrices handed to the conversions: 3x3 matrices, and arrays
\* of other shapes (a length-3 vector, a 3x2 and a 2x3 matrix)
FundamentalMatrices ==
    { Identity3,
      Mat(<< <<0, 1, 0>>, <<1, 0, 0>>, <<0, 0, 1>> >>),
      Mat(<< <<1, 2, 0>>, <<0, 1, 3>>, <<2, 0, 1>> >>),
      Skew(<<1, 0, 0>>) }

MalformedMatrices ==
    { Vec(<<1, 0, 0>>),
      Mat(<< <<1, 0>>, <<0, 1>>, <<0, 0>> >>),
      Mat(<< <<1, 0, 0>>, <<0, 1, 0>> >>) }

\* coordinate arrays of shape Nx2, N = 0..MaxRows (row i is (i-1, i) or (0, 0))
Coordinates ==
    { NdArray(<<n, 2>>, [i \in 1..n |-> <<Q(b * (i - 1)), Q(b * i)>>]) : n \in 0..MaxRows, b \in 0..1 }

\* essential matrices as numpy arrays, as recover_relative_pose_... takes them
EssentialArrays == {E.m : E \in EssentialMatrices}

\* rays from a track point to a camera centre: the zero vector, and
\* directions 45 degrees apart in a plane
Rays == { <<0, 0, 0>>, <<1, 0, 0>>, <<1, 1, 0>>, <<0, 1, 0>>, <<-1, 1, 0>>, <<-2, 0, 0>> }

\* threshold angles (degrees) and Gaussian widths; 5, 1 and 10 are the defaults
Thetas == {Q(5), Q(45), Q(90)}

Sigmas == {Q(1), Q(10)}

Call(f, a, out, p) ==
    /\ fn' = f
    /\ args' = a
    /\ ret' = out.ret
    /\ calls' = out.calls
    /\ prev' = p
    /\ cache' = cache

ThisCall == [tag |-> "call", fn |-> fn, args |-> args, ret |-> ret]

(***************************************************************************)
(* Actions: one call of one function.  A behaviour is one call on fresh    *)
(* inputs, possibly followed by calls made on its result.                  *)
(***************************************************************************)
Fresh == fn = "none"

Init ==
    /\ fn = "none"
    /\ args = None
    /\ ret = None
    /\ calls = <<>>
    /\ prev = None
    /\ cache = [p \in CachePaths |-> None]

RecoverRelativePose ==
    /\ Fresh
    /\ \E E \in EssentialArrays \cup {None}, c1, c2 \in Coordinates \cup {None}, k1, k2 \in Intrinsics :
        \* correspondences are index-aligned; they are read only when E is present
        /\ E # None => (c1 # None /\ c2 # None /\ c1.shape = c2.shape)
        /\ Call("gtsfm.utils.verification.recover_relative_pose_from_essential_matrix",
                [i2Ei1 |-> E, verified_coordinates_i1 |-> c1, verified_coordinates_i2 |-> c2,
                 camera_intrinsics_i1 |-> k1, camera_intrinsics_i2 |-> k2],
                recover_relative_pose_from_essential_matrix(E, c1, c2, k1, k2), None)

UtilsRecoverRelativePose ==
    /\ Fresh
    /\ \E E \in EssentialArrays \cup {None}, c1, c2 \in Coordinates \cup {None}, k1, k2 \in Intrinsics :
        /\ E # None => (c1 # None /\ c2 # None /\ c1.shape = c2.shape)
        /\ Call("utils.verification.recover_relative_pose_from_essential_matrix",
                [i2Ei1 |-> E, verified_coordinates_i1 |-> c1, verified_coordinates_i2 |-> c2,
                 camera_intrinsics_i1 |-> k1, camera_intrinsics_i2 |-> k2],
                utils_recover_relative_pose_from_essential_matrix(E, c1, c2, k1, k2), None)

ConversionArgs(M, k1, k2) ==
    [matrix |-> M, camera_intrinsics_i1 |-> k1, camera_intrinsics_i2 |-> k2]

FundamentalToEssential ==
    /\ Fresh
    /\ \E F \in FundamentalMatrices \cup MalformedMatrices, k1, k2 \in Intrinsics :
        Call("gtsfm.utils.verification.fundamental_to_essential_matrix", ConversionArgs(F, k1, k2),
             Outcome(fundamental_to_essential_matrix(F, k1, k2), <<>>), None)

UtilsFundamentalToEssential ==
    /\ Fresh
    /\ \E F \in FundamentalMatrices \cup MalformedMatrices, k1, k2 \in Intrinsics :
        Call("utils.verification.fundamental_to_essential_matrix", ConversionArgs(F, k1, k2),
             Outcome(utils_fundamental_to_essential_matrix(F, k1, k2), <<>>), None)

EssentialToFundamental ==
    /\ Fresh
    /\ \E E \in EssentialMatrices, k1, k2 \in Intrinsics :
        Call("gtsfm.utils.verification.essential_to_fundamental_matrix", ConversionArgs(E, k1, k2),
             Outcome(essential_to_fundamental_matrix(E, k1, k2), <<>>), None)

\* essential_to_fundamental_matrix applied to what fundamental_to_essential_matrix
\* returned (a numpy array), with the same intrinsics
EssentialToFundamentalOfResult ==
    /\ fn = "gtsfm.utils.verification.fundamental_to_essential_matrix"
    /\ ~IsError(ret)
    /\ Call("gtsfm.utils.verification.essential_to_fundamental_matrix",
            ConversionArgs(ret, args.camera_intrinsics_i1, args.camera_intrinsics_i2),
            Outcome(essential_to_fundamental_matrix(ret, args.camera_intrinsics_i1, args.camera_intrinsics_i2),
                    <<>>),
            ThisCall)

\* the same, with the returned array held by an EssentialMatrix object (one
\* exists only when the array is an essential matrix)
EssentialToFundamentalOfWrapped ==
    /\ fn = "gtsfm.utils.verification.fundamental_to_essential_matrix"
    /\ \E E \in EssentialMatrices :
        /\ E.m = ret
        /\ Call("gtsfm.utils.verification.essential_to_fundamental_matrix",
                ConversionArgs(E, args.camera_intrinsics_i1, args.camera_intrinsics_i2),
                Outcome(essential_to_fundamental_matrix(E, args.camera_intrinsics_i1,
                                                        args.camera_intrinsics_i2), <<>>),
                ThisCall)

\* fundamental_to_essential_matrix applied to what essential_to_fundamental_matrix
\* returned, with the same intrinsics
FundamentalToEssentialOfResult ==
    /\ fn = "gtsfm.utils.verification.essential_to_fundamental_matrix"
    /\ ~IsError(ret)
    /\ Call("gtsfm.utils.verification.fundamental_to_essential_matrix",
            ConversionArgs(ret, args.camera_intrinsics_i1, args.camera_intrinsics_i2),
            Outcome(fundamental_to_essential_matrix(ret, args.camera_intrinsics_i1, args.camera_intrinsics_i2),
                    <<>>),
            ThisCall)

EpipolarArgs(c1, c2, F) == [coordinates_i1 |-> c1, coordinates_i2 |-> c2, i2Fi1 |-> F]

EpipolarDistancesSed ==
    /\ Fresh
    /\ \E c1, c2 \in Coordinates \cup {None}, F \in FundamentalMatrices \cup MalformedMatrices :
        \* rows are index-aligned and F is 3x3 whenever they are read
        /\ (~NoData(c1) /\ ~NoData(c2)) => (c1.shape = c2.shape /\ IsMatrix3x3(F))
        /\ Call("gtsfm.utils.verification.compute_epipolar_distances_sed", EpipolarArgs(c1, c2, F),
                Outcome(compute_epipolar_distances_sed(c1, c2, F), <<>>), None)

EpipolarDistancesSampson ==
    /\ Fresh
    /\ \E c1, c2 \in Coordinates \cup {None}, F \in FundamentalMatrices \cup MalformedMatrices :
        \* rows are index-aligned and F is 3x3 whenever they are read
        /\ (~NoData(c1) /\ ~NoData(c2)) => (c1.shape = c2.shape /\ IsMatrix3x3(F))
        /\ Call("gtsfm.utils.verification.compute_epipolar_distances_sampson", EpipolarArgs(c1, c2, F),
                Outcome(compute_epipolar_distances_sampson(c1, c2, F), <<>>), None)

GaussianArgs(a, b, t, s1, s2) == [xPa |-> a, xPb |-> b, theta_0 |-> t, sigma_1 |-> s1, sigma_2 |-> s2]

PiecewiseGaussian ==
    /\ Fresh
    /\ \E a, b \in Rays, t \in Thetas, s1, s2 \in Sigmas :
        Call("gtsfm.densify.mvs_math.piecewise_gaussian", GaussianArgs(a, b, t, s1, s2),
             Outcome(piecewise_gaussian(a, b, t, s1, s2), <<>>), None)

\* a second track scored with the same theta_0, sigma_1, sigma_2
PiecewiseGaussianNextTrack ==
    /\ fn = "gtsfm.densify.mvs_math.piecewise_gaussian"
    /\ prev = None
    /\ \E a, b \in Rays :
        Call("gtsfm.densify.mvs_math.piecewise_gaussian",
             GaussianArgs(a, b, args.theta_0, args.sigma_1, args.sigma_2),
             Outcome(piecewise_gaussian(a, b, args.theta_0, args.sigma_1, args.sigma_2), <<>>),
             ThisCall)

CacherMatch == "gtsfm.frontend.matcher.cacher.matcher_cacher.MatcherCacher.match"

\* one match call of the cacher; calls follow one another on the same cache
MatcherCacherMatch ==
    /\ Fresh \/ fn = CacherMatch
    /\ \E inputs \in MatchInputs :
        LET out == MatcherCacher_match(inputs, cache)
        IN  /\ fn' = CacherMatch
            /\ args' = [inputs |-> inputs]
            /\ ret' = out.ret
            /\ calls' = out.calls
            /\ prev' = None
            /\ cache' = out.files

Next ==
    \/ MatcherCacherMatch
    \/ EpipolarDistancesSed
    \/ EpipolarDistancesSampson
    \/ PiecewiseGaussian
    \/ PiecewiseGaussianNextTrack
    \/ RecoverRelativePose
    \/ UtilsRecoverRelativePose
    \/ FundamentalToEssential
    \/ UtilsFundamentalToEssential
    \/ EssentialToFundamental
    \/ EssentialToFundamentalOfResult
    \/ EssentialToFundamentalOfWrapped
    \/ FundamentalToEssentialOfResult

Spec == Init /\ [][Next]_vars

(***************************************************************************)
(* Properties.                                                             *)
(***************************************************************************)
RecoverFns == { "gtsfm.utils.verification.recover_relative_pose_from_essential_matrix",
                "utils.verification.recover_relative_pose_from_essential_matrix" }

F2E == "gtsfm.utils.verification.fundamental_to_essential_matrix"

E2F == "gtsfm.utils.verification.essential_to_fundamental_matrix"

DistanceFns == { "gtsfm.utils.verification.compute_epipolar_distances_sed",
                 "gtsfm.utils.verification.compute_epipolar_distances_sampson" }

Gaussian == "gtsfm.densify.mvs_math.piecewise_gaussian"

Invertible(cal) == Det3(K(cal)) # Q(0)

\* K2^T . F . K1 written out entry by entry
KtFK(F, k1, k2) ==
    NdArray(<<3, 3>>,
            [i \in 1..3 |-> [j \in 1..3 |->
                RSum([n \in 1..9 |->
                        LET a == ((n - 1) \div 3) + 1
                            b == ((n - 1) % 3) + 1
                        IN  RMul(RMul(K(k2).a[a][i], F.a[a][b]), K(k1).a[b][j])])]])

\* C1: with the essential matrix absent, recover_relative_pose_from_essential_matrix
\* returns (None, None) whatever the correspondences and intrinsics are, raising
\* nothing and without calling cv.recoverPose.
C1_AbsentEssentialGivesNoPose ==
    (fn \in RecoverFns /\ args.i2Ei1 = None) => (ret = Pair(None, None) /\ calls = <<>>)

\* C2: both distance functions return None, and raise nothing, when
\* coordinates_i1 or coordinates_i2 is None or empty, for any F, and return
\* None in no other case.
C2_NoDataSentinel ==
    fn \in DistanceFns =>
        /\ (ret = None) <=> (NoData(args.coordinates_i1) \/ NoData(args.coordinates_i2))
        /\ ~IsError(ret)

C2_Witness ==
    /\ fn \in DistanceFns
    /\ args.coordinates_i1 # None /\ args.coordinates_i1.shape[1] = MaxRows
    /\ args.coordinates_i2 # None /\ args.coordinates_i2.shape[1] = 0
    /\ ~IsMatrix3x3(args.i2Fi1)
    /\ ret = None

\* C3: fundamental_to_essential_matrix(F, K1, K2) is K2^T . F . K1 for the
\* calibration matrices of the intrinsics it is given (identity for identity
\* F and identity calibrations).
C3_EssentialIsK2tFK1 ==
    (fn \in {F2E, "utils.verification.fundamental_to_essential_matrix"} /\ IsMatrix3x3(args.matrix))
        => ret = KtFK(args.matrix, args.camera_intrinsics_i1, args.camera_intrinsics_i2)

IsRoundTrip ==
    /\ fn = E2F
    /\ prev.tag = "call"
    /\ prev.fn = F2E
    /\ IsMatrix3x3(prev.args.matrix)
    /\ args.camera_intrinsics_i1 = prev.args.camera_intrinsics_i1
    /\ args.camera_intrinsics_i2 = prev.args.camera_intrinsics_i2
    /\ Invertible(args.camera_intrinsics_i1)
    /\ Invertible(args.camera_intrinsics_i2)

C5_SingularIntrinsicsRaise ==
    (fn = E2F /\ (~Invertible(args.camera_intrinsics_i1) \/ ~Invertible(args.camera_intrinsics_i2)))
        => /\ IsError(ret)
           /\ args.matrix.tag = "EssentialMatrix" => ret = Error("LinAlgError")

C5_Witness ==
    /\ fn = E2F
    /\ args.matrix.tag = "EssentialMatrix"
    /\ args.camera_intrinsics_i1.f = 0
    /\ Invertible(args.camera_intrinsics_i2)
    /\ ret = Error("LinAlgError")

\* C6: fundamental_to_essential_matrix raises a shape error (numpy's
\* ValueError) when F is not 3x3, a length-3 vector and a 3xN matrix included,
\* and returns a 3x3 matrix for every 3x3 F.
C6_ShapeErrorOnly ==
    fn = F2E =>
        IF IsMatrix3x3(args.matrix) THEN IsMatrix3x3(ret) ELSE ret = Error("ValueError")

IsZero(v) == Dot(v, v) = 0

\* C7: piecewise_gaussian raises the degenerate-vector error when xPa or xPb
\* has zero magnitude, and returns no score then.
C7_ZeroRayRaises ==
    (fn = Gaussian /\ (IsZero(args.xPa) \/ IsZero(args.xPb))) => ret = Error("DegenerateVectorError")

C7_Witness ==
    /\ fn = Gaussian
    /\ IsZero(args.xPa)
    /\ ~IsZero(args.xPb)
    /\ ret = Error("DegenerateVectorError")

\* the angle between the rays of the call in args (defined for non-zero rays)
AngleOf(a) == angle_between_vectors(a.xPa, a.xPb).deg

\* C8: piecewise_gaussian returns exactly 1.0 when the angle between the rays
\* equals theta_0, for any sigma_1 and sigma_2.
C8_OneAtTheta0 ==
    (fn = Gaussian /\ ~IsZero(args.xPa) /\ ~IsZero(args.xPb) /\ AngleOf(args) = args.theta_0)
        => ret.v = "1.0"

C8_Witness ==
    /\ fn = Gaussian
    /\ args.xPa = <<1, 0, 0>> /\ args.xPb = <<0, 1, 0>>
    /\ args.theta_0 = Q(90)
    /\ args.sigma_1 = Q(10)
    /\ ret.v = "1.0"

\* C9: for non-zero rays the score of piecewise_gaussian is in (0, 1]: never
\* 0, never negative, never above 1.
C9_ScoreInRange ==
    (fn = Gaussian /\ ~IsZero(args.xPa) /\ ~IsZero(args.xPb))
        => \/ ret.v = "1.0"
           \/ ret.v = "exp" /\ RLt(ret.x, Q(0))

\* |theta - theta_0| of the call in a
Deviation(a) ==
    LET d == RSub(AngleOf(a), a.theta_0)
    IN  IF RLt(d, Q(0)) THEN RNeg(d) ELSE d

\* C10: for the same theta_0, sigma_1, sigma_2, of two angles on the same
\* side of theta_0 (both <= theta_0 or both > theta_0) the one farther from
\* theta_0 has the strictly smaller score.
C10_StrictlyDecreasing ==
    ( /\ fn = Gaussian
      /\ prev.tag = "call"
      /\ ~IsError(ret) /\ ~IsError(prev.ret)
      /\ RLe(AngleOf(args), args.theta_0) <=> RLe(AngleOf(prev.args), args.theta_0)
      /\ RLt(Deviation(prev.args), Deviation(args)) )
        => ScoreLt(ret, prev.ret)


\* squared xy-norms, per row, of the epipolar lines in image i1 (F^T . p2)
\* and in image i2 (F . p1) of the distance call in a
NormsI1(a) == line_sq_norms(convert_to_epipolar_lines(a.coordinates_i2, Transpose(a.i2Fi1)))

NormsI2(a) == line_sq_norms(convert_to_epipolar_lines(a.coordinates_i1, a.i2Fi1))

\* dot(p1_h, line1) per row
Numerators(a) ==
    point_line_dotproduct(a.coordinates_i1, convert_to_epipolar_lines(a.coordinates_i2, Transpose(a.i2Fi1)))

Rows(a) == 1..a.coordinates_i1.shape[1]

HasData(a) == ~NoData(a.coordinates_i1) /\ ~NoData(a.coordinates_i2)

Sed == "gtsfm.utils.verification.compute_epipolar_distances_sed"

Sampson == "gtsfm.utils.verification.compute_epipolar_distances_sampson"

CallsOf(op) == {i \in 1..Len(calls) : calls[i].op = op}

\* C12: a match call of the cacher reads the cache path exactly once; on a
\* miss it calls the wrapped matcher exactly once with the same arguments,
\* writes that result to the same path exactly once and returns it; on a hit
\* it returns the cached value and neither calls the matcher nor writes.
C12_ReadOnceFallThroughOnMiss ==
    fn = CacherMatch =>
        /\ Cardinality(CallsOf("read_from_compressed_file")) = 1
        /\ calls[1].op = "read_from_compressed_file"
        /\ calls[1].path = CachePath(args.inputs)
        /\ IF calls[1].data = None
           THEN /\ Cardinality(CallsOf("match")) = 1
                /\ Cardinality(CallsOf("write_to_compressed_file")) = 1
                /\ \A i \in CallsOf("match") : calls[i].inputs = args.inputs /\ ret = calls[i].data
                /\ \A i \in CallsOf("write_to_compressed_file") :
                      calls[i].path = CachePath(args.inputs) /\ calls[i].data = ret
                /\ cache[CachePath(args.inputs)] = ret
           ELSE /\ CallsOf("match") = {}
                /\ CallsOf("write_to_compressed_file") = {}
                /\ ret = calls[1].data
                /\ cache[CachePath(args.inputs)] = ret

\* a hit on a file that an earlier call wrote
C12_Witness ==
    /\ fn = CacherMatch
    /\ Len(calls) = 1
    /\ calls[1].data # None
    /\ ret = calls[1].data
    /\ ret \in {MatchIndices(i) : i \in MatchInputs}


\* (x, y, 1) of row i of a coordinate array, as a 1-D array
Homogeneous(coordinates, i) == NdArray(<<3>>, <<coordinates.a[i][1], coordinates.a[i][2], Q(1)>>)

\* what the formulas of the claim use for row i of the distance call in a:
\* line1 = F^T . p2_h, line2 = F . p1_h, numerator = dot(p1_h, line1)
Line1(a, i) == MatMul(Transpose(a.i2Fi1), Homogeneous(a.coordinates_i2, i))

Line2(a, i) == MatMul(a.i2Fi1, Homogeneous(a.coordinates_i1, i))

XYNorm2(line) == RAdd(RMul(line.a[1], line.a[1]), RMul(line.a[2], line.a[2]))

Numerator(a, i) ==
    RSum([k \in 1..3 |-> RMul(Homogeneous(a.coordinates_i1, i).a[k], Line1(a, i).a[k])])

\* C13: for non-empty inputs both functions return one value per row, in
\* input order: numerator * sqrt(1/|line1_xy|^2 + 1/|line2_xy|^2) for sed and
\* numerator / sqrt(|line1_xy|^2 + |line2_xy|^2) for sampson, with
\* line2 = F . p1_h, line1 = F^T . p2_h and numerator = dot(p1_h, line1).
\* (A value is compared by its sign and its square; a zero denominator gives
\* inf or nan.)
C13_DistanceFormulas ==
    (fn \in DistanceFns /\ HasData(args)) =>
        /\ ret.tag = "ndarray"
        /\ ret.shape = <<args.coordinates_i1.shape[1]>>
        /\ \A i \in Rows(args) :
              LET num == Numerator(args, i)
                  n1 == XYNorm2(Line1(args, i))
                  n2 == XYNorm2(Line2(args, i))
                  denomZero == IF fn = Sed THEN n1 = Q(0) \/ n2 = Q(0) ELSE RAdd(n1, n2) = Q(0)
              IN  IF denomZero THEN ret.a[i].kind # "finite"
                  ELSE /\ ret.a[i].kind = "finite"
                       /\ ret.a[i].sign = Sign(num[1])
                       /\ ret.a[i].sq = IF fn = Sed
                                        THEN RDiv(RMul(RMul(num, num), RAdd(n1, n2)), RMul(n1, n2))
                                        ELSE RDiv(RMul(num, num), RAdd(n1, n2))

C13_Witness ==
    /\ fn = Sampson
    /\ HasData(args)
    /\ args.coordinates_i1.shape[1] >= 2
    /\ args.i2Fi1 # Transpose(args.i2Fi1)
    /\ ret.a[1].kind = "finite" /\ ret.a[2].kind = "finite"
    /\ ret.a[1].sq # ret.a[2].sq
    /\ ret.a[1].sq # Q(0)


\* the width the claim names for the call in a: sigma_1 below theta_0 and at
\* the tie, sigma_2 above
ClaimedSigma(a) ==
    CASE RLt(AngleOf(a), a.theta_0) -> a.sigma_1
      [] AngleOf(a) = a.theta_0 -> a.sigma_1
      [] RLt(a.theta_0, AngleOf(a)) -> a.sigma_2

\* C14: piecewise_gaussian uses the width sigma_1 when theta <= theta_0, the
\* tie included, and sigma_2 when theta > theta_0, and no other width: the
\* local sigma is that width and the score is exp(-(theta - theta_0)^2 / (2 sigma^2)).
C14_WidthByBranch ==
    (fn = Gaussian /\ ~IsZero(args.xPa) /\ ~IsZero(args.xPb)) =>
        LET d == RSub(AngleOf(args), args.theta_0)
            s == ClaimedSigma(args)
        IN  /\ selected_sigma(AngleOf(args), args.theta_0, args.sigma_1, args.sigma_2) = s
            /\ ret = MathExp(RDiv(RNeg(RMul(d, d)), RMul(Q(2), RMul(s, s))))

\* an angle above theta_0 scored with sigma_2: 90 against 45 with width 10
C14_Witness ==
    /\ fn = Gaussian
    /\ ~IsZero(args.xPa) /\ ~IsZero(args.xPb)
    /\ AngleOf(args) = Q(90)
    /\ args.theta_0 = Q(45)
    /\ args.sigma_1 = Q(1) /\ args.sigma_2 = Q(10)
    /\ ret.v = "exp"
    /\ ret.x = <<-81, 8>>


EmptyCoordinates == NdArray(<<0, 2>>, <<>>)

\* C15: with the essential matrix present and zero correspondences,
\* recover_relative_pose_from_essential_matrix hands the empty sets to
\* cv.recoverPose and returns what it yields: no failure in the normalisation
\* before it, no default of its own.
C15_EmptySetsReachPrimitive ==
    ( /\ fn \in RecoverFns
      /\ args.i2Ei1 # None
      /\ args.verified_coordinates_i1 = EmptyCoordinates
      /\ args.verified_coordinates_i2 = EmptyCoordinates )
        => /\ calls = <<"cv.recoverPose">>
           /\ ret = Pair(Rot3(recoverPose(args.i2Ei1, EmptyCoordinates, EmptyCoordinates)),
                         Unit3(recoverPose(args.i2Ei1, EmptyCoordinates, EmptyCoordinates)))

====
